---- MODULE Spec2Model ----
(***************************************************************************)
(* Model of the rooneyform backend: the cart / favorites / order handlers  *)
(* of backend/routers/users.py, the catalog and order-status handlers of   *)
(* backend/routers/store.py, the CartItem admin view of backend/admin.py   *)
(* and the Telegram webhook of backend/routers/telegram_webhook.py, over   *)
(* the tables of backend/models.py.                                        *)
(*                                                                         *)
(* Every handler is an async coroutine with its own AsyncSession           *)
(* (database.py get_db), so handlers interleave at their awaits.  SQLite   *)
(* through the sqlite3 driver opens a transaction at the first DML         *)
(* statement only: a handler's SELECTs read the committed state, and its   *)
(* writes (first DML .. COMMIT) hold the database write lock, so they are  *)
(* one atomic step.  A handler is therefore a read step followed by a      *)
(* write step; a session closed without commit rolls its writes back.      *)
(* A table's integer primary key without AUTOINCREMENT is the SQLite       *)
(* rowid: a new row gets the largest id in use plus one.  SELECTs without  *)
(* ORDER BY scan in rowid order.                                           *)
(***************************************************************************)
EXTENDS Integers, Sequences, FiniteSets, Bags, TLC

\* ---------------------------------------------------------------- bounds
MaxProductId == 2
MaxRowId == 3
MaxOrders == 2
MaxCalls == 5
MaxUpdates == 3
MaxFavId == 3

\* two users (telegram ids) and two coroutines in flight at a time
Users == {1, 2}
Procs == {1, 2}
ProductIds == 1..MaxProductId
RowIds == 1..MaxRowId
FavIds == 1..MaxFavId

\* ------------------------------------------------------------ the tables
VARIABLES
    users,      \* User rows: the set of telegram_id
    products,   \* Product rows: id -> row or NoProduct
    cart,       \* CartItem rows: id -> row or NoRow
    orders,     \* Order rows with their OrderItems, by id (never deleted)
    subs,       \* SizeSubscription rows: a bag of [user_id, size]
    favorites,  \* Favorite rows: id -> row or NoRow
    req,        \* per coroutine: the request in flight, its response and the
                \* Telegram messages it sent
    calls,      \* number of requests issued so far
    cleared     \* history: user -> an order emptied the cart and no add_to_cart
                \* has inserted a row for the user since

vars == <<users, products, cart, orders, subs, favorites, req, calls, cleared>>
store == <<users, products, cart, orders, subs, favorites>>

NoProduct == [none |-> "product"]
NoRow == [none |-> "row"]
\* a NULL price column (Python None), apart from every price
NoPrice == -1

\* Product.image_url is a path below static/ until something makes it absolute.
RelImage == "static/a.jpg"
BaseUrl == "http://host/"
AbsImage == "http://host/static/a.jpg"

\* utils/media.py build_absolute_url (the request host is no ngrok tunnel)
build_absolute_url(base_url, path) ==
    IF path = "" THEN path
    ELSE IF path = AbsImage THEN path
    ELSE IF base_url = BaseUrl /\ path = RelImage THEN AbsImage
    ELSE path

\* utils/media.py normalize_product_media: rewrites the loaded Product object
normalize_product_media(base_url, product) ==
    IF product = NoProduct THEN product
    ELSE [product EXCEPT !.image_url = build_absolute_url(base_url, @)]

\* ----------------------------------------------------------- SQL helpers
Max(S) == IF S = {} THEN 0 ELSE CHOOSE x \in S : \A y \in S : y <= x

\* rowid of the next INSERT into cart_items
NextRowId == Max({r \in RowIds : cart[r] # NoRow}) + 1
\* rowid of the next INSERT into products
NextProductId == Max({i \in ProductIds : products[i] # NoProduct}) + 1

RECURSIVE SeqSum(_)
SeqSum(s) == IF s = <<>> THEN 0 ELSE Head(s) + SeqSum(Tail(s))

RECURSIVE Ascending(_)
\* the ids of S in rowid order
Ascending(S) ==
    IF S = {} THEN <<>>
    ELSE LET m == CHOOSE x \in S : \A y \in S : x <= y
         IN <<m>> \o Ascending(S \ {m})

Range(s) == {s[i] : i \in DOMAIN s}

\* A CartItem object as a session loads it, with its product relationship
LoadCartItem(r) ==
    [id |-> r,
     user_id |-> cart[r].user_id,
     product_id |-> cart[r].product_id,
     quantity |-> cart[r].quantity,
     product |-> IF cart[r].product_id \in ProductIds
                 THEN products[cart[r].product_id] ELSE NoProduct]

\* select(CartItem).where(CartItem.user_id == user_id) with selectinload(product)
SelectCart(u) ==
    LET ids == Ascending({r \in RowIds : cart[r] # NoRow /\ cart[r].user_id = u})
    IN [i \in 1..Len(ids) |-> LoadCartItem(ids[i])]

\* select(CartItem).where(user_id == u, product_id == pid)
SelectCartProduct(u, pid) ==
    LET ids == Ascending({r \in RowIds : cart[r] # NoRow /\ cart[r].user_id = u
                                          /\ cart[r].product_id = pid})
    IN [i \in 1..Len(ids) |-> LoadCartItem(ids[i])]

\* ------------------------------------------------------------- strings
\* Strings the bot parses are sequences of characters, so that strip, split,
\* upper and lower are computed as Python computes them.
Lower == <<"a", "b", "c", "d", "e", "f", "g", "h", "i", "j", "k", "l", "m",
           "n", "o", "p", "q", "r", "s", "t", "u", "v", "w", "x", "y", "z">>
Upper == <<"A", "B", "C", "D", "E", "F", "G", "H", "I", "J", "K", "L", "M",
           "N", "O", "P", "Q", "R", "S", "T", "U", "V", "W", "X", "Y", "Z">>

IndexOf(c, alphabet) ==
    IF \E i \in DOMAIN alphabet : alphabet[i] = c
    THEN CHOOSE i \in DOMAIN alphabet : alphabet[i] = c ELSE 0

upper_char(c) == IF IndexOf(c, Lower) = 0 THEN c ELSE Upper[IndexOf(c, Lower)]
lower_char(c) == IF IndexOf(c, Upper) = 0 THEN c ELSE Lower[IndexOf(c, Upper)]

\* mutant: the value is stored as typed
upper_as_typed(str) == str

\* str.upper()
upper(str) == [i \in DOMAIN str |-> upper_char(str[i])]
\* str.lower()
lower(str) == [i \in DOMAIN str |-> lower_char(str[i])]

IsSpace(c) == c \in {" ", "\t", "\n"}

RECURSIVE lstrip(_)
lstrip(str) == IF str # <<>> /\ IsSpace(Head(str)) THEN lstrip(Tail(str)) ELSE str

RECURSIVE rstrip(_)
rstrip(str) ==
    IF str # <<>> /\ IsSpace(str[Len(str)]) THEN rstrip(SubSeq(str, 1, Len(str) - 1))
    ELSE str

\* str.strip()
strip(str) == rstrip(lstrip(str))

\* str.startswith(prefix)
startswith(str, prefix) ==
    Len(str) >= Len(prefix) /\ SubSeq(str, 1, Len(prefix)) = prefix

RECURSIVE TakeToken(_)
\* the characters up to the first whitespace
TakeToken(str) ==
    IF str = <<>> \/ IsSpace(Head(str)) THEN <<>>
    ELSE <<Head(str)>> \o TakeToken(Tail(str))

RECURSIVE SkipToken(_)
\* what follows the first token
SkipToken(str) ==
    IF str = <<>> \/ IsSpace(Head(str)) THEN str ELSE SkipToken(Tail(str))

\* text.split(maxsplit=1): the first token and, when there is one, the rest
\* from its first non-blank character on (trailing blanks kept)
split_maxsplit1(text) ==
    LET t == lstrip(text)
        rest == lstrip(SkipToken(t))
    IN IF t = <<>> THEN <<>>
       ELSE IF rest = <<>> THEN <<TakeToken(t)>>
       ELSE <<TakeToken(t), rest>>

RECURSIVE after_colon(_)
\* data.split(":", 1)[1]
after_colon(data) ==
    IF data = <<>> THEN <<>>
    ELSE IF Head(data) = ":" THEN Tail(data) ELSE after_colon(Tail(data))

\* ------------------------------------------------------------- requests
Idle == [pc |-> "idle", op |-> "none", user |-> 0, arg |-> 0,
         snap |-> <<>>, plan |-> <<>>, status |-> 0, body |-> <<>>,
         update |-> <<>>, sent |-> <<>>]

Respond(p, st, b) ==
    [req EXCEPT ![p].pc = "done", ![p].status = st, ![p].body = b]

Init ==
    /\ users = {}
    /\ products = [i \in ProductIds |-> NoProduct]
    /\ cart = [r \in RowIds |-> NoRow]
    /\ orders = <<>>
    /\ subs = EmptyBag
    /\ favorites = [f \in FavIds |-> NoRow]
    /\ req = [p \in Procs |-> Idle]
    /\ calls = 0
    /\ cleared = [u \in Users |-> FALSE]

\* ------------------------------------------------- get_current_user_id
CartOps == {"get_cart", "add_to_cart", "remove_from_cart", "create_order"}
FavOps == {"get_favorites", "add_favorite", "remove_favorite"}
Quantities == {1, 2}
\* the CartItemCreate bodies sent: product 1 with the default quantity, the
\* other products with quantity 2
CartItemCreates ==
    {<<i, IF i = 1 THEN 1 ELSE 2>> : i \in ProductIds}

\* A store request arrives: the dependency get_current_user_id selects the User.
Request(p) ==
    /\ req[p].pc \in {"idle", "done"}
    /\ calls < MaxCalls
    /\ \E op \in CartOps, u \in Users :
        \E a \in (CASE op = "add_to_cart" -> CartItemCreates
                     [] op = "remove_from_cart" -> RowIds \X {1}
                     [] OTHER -> {<<0, 1>>}) :
            req' = [req EXCEPT ![p] =
                      [Idle EXCEPT !.pc = IF u \in users THEN "handler" ELSE "adduser",
                                   !.op = op, !.user = u, !.arg = a[1],
                                   !.plan = IF op = "add_to_cart"
                                            THEN [quantity |-> a[2]] ELSE <<>>]]
    /\ calls' = calls + 1
    /\ UNCHANGED <<store, cleared>>

\* db.add(User); commit; an IntegrityError (the row appeared meanwhile) is
\* caught and rolled back.
get_current_user_id(p) ==
    /\ req[p].pc = "adduser"
    /\ req[p].op \in CartOps \cup FavOps
    /\ users' = users \cup {req[p].user}
    /\ req' = [req EXCEPT ![p].pc = "handler"]
    /\ UNCHANGED <<products, cart, orders, subs, calls, cleared, favorites>>

\* -------------------------------------------------------------- get_cart
NoPlan == [valid_items |-> <<>>, orphan_ids |-> <<>>, duplicate_ids |-> <<>>,
           quantity_changed |-> FALSE, dirty_rows |-> {}, dirty_products |-> {}]

\* mutant: the orphan test is left out
is_orphan_never(item) == FALSE

\* "if not item.product": the row's product does not exist
is_orphan(item) == item.product = NoProduct

\* mutant: seen_products is never consulted
is_duplicate_never(item, seen_products) == FALSE

\* "if item.product_id in seen_products"
is_duplicate(item, seen_products) == item.product_id \in seen_products

\* mutant: the commit also runs when the loop rewrote a product's image_url
needs_commit_media(plan) ==
    \/ plan.orphan_ids # <<>> \/ plan.duplicate_ids # <<>> \/ plan.quantity_changed
    \/ plan.dirty_products # {}

\* "if orphan_ids or duplicate_ids or quantity_changed: await db.commit()"
needs_commit(plan) ==
    plan.orphan_ids # <<>> \/ plan.duplicate_ids # <<>> \/ plan.quantity_changed

RECURSIVE get_cart_loop(_, _, _)
\* the loop of get_cart over the fetched items; dirty_rows / dirty_products are
\* the objects the loop modified, which the session flushes at a commit
get_cart_loop(items, seen_products, acc) ==
    IF items = <<>> THEN acc
    ELSE LET item == Head(items) IN
        IF is_orphan(item)
        THEN get_cart_loop(Tail(items), seen_products,
                 [acc EXCEPT !.orphan_ids = Append(@, item.id)])
        ELSE IF is_duplicate(item, seen_products)
        THEN get_cart_loop(Tail(items), seen_products,
                 [acc EXCEPT !.duplicate_ids = Append(@, item.id)])
        ELSE LET normal == normalize_product_media(BaseUrl, item.product) IN
             get_cart_loop(Tail(items), seen_products \cup {item.product_id},
                 [acc EXCEPT
                    !.quantity_changed = @ \/ item.quantity # 1,
                    !.dirty_rows = IF item.quantity # 1 THEN @ \cup {item.id} ELSE @,
                    !.dirty_products = IF normal # item.product
                                       THEN @ \cup {item.product_id} ELSE @,
                    !.valid_items = Append(@, [item EXCEPT !.quantity = 1,
                                                           !.product = normal])])

\* get_cart up to its first write: the select and the loop.  With nothing to
\* reconcile it returns without commit; the session closes and rolls back.
get_cart_read(p) ==
    /\ req[p].pc = "handler"
    /\ req[p].op = "get_cart"
    /\ LET items == SelectCart(req[p].user)
           plan == get_cart_loop(items, {}, NoPlan)
       IN req' = IF needs_commit(plan)
                 THEN [req EXCEPT ![p].pc = "commit", ![p].snap = items,
                                  ![p].plan = plan]
                 ELSE [req EXCEPT ![p].pc = "done", ![p].snap = items,
                                  ![p].plan = plan, ![p].status = 200,
                                  ![p].body = plan.valid_items]
    /\ UNCHANGED <<store, calls, cleared>>

\* The flush of the modified objects (an UPDATE that matches no row raises
\* StaleDataError: the request fails and nothing is committed), the two
\* deletes by id, and the commit.
get_cart_commit(p) ==
    /\ req[p].pc = "commit"
    /\ req[p].op = "get_cart"
    /\ LET plan == req[p].plan
           gone == Range(plan.orphan_ids) \cup Range(plan.duplicate_ids)
           stale == \/ \E r \in plan.dirty_rows : cart[r] = NoRow
                    \/ \E i \in plan.dirty_products : products[i] = NoProduct
       IN IF stale
          THEN /\ req' = Respond(p, 500, <<>>)
               /\ UNCHANGED <<cart, products>>
          ELSE /\ cart' = [r \in RowIds |->
                            IF r \in gone THEN NoRow
                            ELSE IF r \in plan.dirty_rows
                                 THEN [cart[r] EXCEPT !.quantity = 1]
                                 ELSE cart[r]]
               /\ products' = [i \in ProductIds |->
                                IF i \in plan.dirty_products
                                THEN [products[i] EXCEPT !.image_url =
                                        build_absolute_url(BaseUrl, @)]
                                ELSE products[i]]
               /\ req' = Respond(p, 200, plan.valid_items)
    /\ UNCHANGED <<users, orders, subs, calls, cleared, favorites>>

\* ----------------------------------------------------------- add_to_cart
\* The two selects of add_to_cart: the product must exist (404 otherwise); the
\* rows of this user and product are fetched.
add_to_cart_read(p) ==
    /\ req[p].pc = "handler"
    /\ req[p].op = "add_to_cart"
    /\ req' = IF products[req[p].arg] = NoProduct
              THEN Respond(p, 404, <<>>)
              ELSE [req EXCEPT ![p].pc = "commit",
                               ![p].snap = SelectCartProduct(req[p].user, req[p].arg)]
    /\ UNCHANGED <<store, calls, cleared>>

\* mutant: the quantity of the request body is stored
cart_quantity_as_requested(quantity) == quantity

\* "cart_item.quantity = 1" / "CartItem(..., quantity=1)": item.quantity of the
\* request body is not read
cart_quantity(quantity) == 1

\* The response of add_to_cart: the row is selected again by id (scalar_one
\* fails when it is gone) and serialised with its product (which the schema
\* requires).
add_to_cart_response(p, id, cart1, products1) ==
    IF cart1[id] = NoRow THEN Respond(p, 500, <<>>)
    ELSE IF products1[cart1[id].product_id] = NoProduct THEN Respond(p, 500, <<>>)
    ELSE Respond(p, 200,
            <<[id |-> id, user_id |-> cart1[id].user_id,
               product_id |-> cart1[id].product_id,
               quantity |-> cart_quantity(req[p].plan.quantity),
               product |-> normalize_product_media(BaseUrl,
                              products1[cart1[id].product_id])]>>)

\* With a row found: quantity = 1 on the first, the extras deleted.  Without:
\* a new row with quantity 1, whatever quantity the request carried.  Commit.
add_to_cart_commit(p) ==
    /\ req[p].pc = "commit"
    /\ req[p].op = "add_to_cart"
    /\ LET cart_items == req[p].snap
           quantity == cart_quantity(req[p].plan.quantity) IN
       IF cart_items # <<>>
       THEN LET cart_item == cart_items[1]
                extras == {cart_items[i].id : i \in 2..Len(cart_items)}
                stale == cart_item.quantity # quantity /\ cart[cart_item.id] = NoRow
            IN IF stale
               THEN /\ req' = Respond(p, 500, <<>>)
                    /\ UNCHANGED <<cart, cleared>>
               ELSE /\ cart' = [r \in RowIds |->
                                 IF r \in extras THEN NoRow
                                 ELSE IF r = cart_item.id /\ cart_item.quantity # quantity
                                      THEN [cart[r] EXCEPT !.quantity = quantity]
                                      ELSE cart[r]]
                    /\ req' = add_to_cart_response(p, cart_item.id, cart', products)
                    /\ UNCHANGED cleared
       ELSE /\ NextRowId <= MaxRowId
            /\ cart' = [cart EXCEPT ![NextRowId] =
                          [user_id |-> req[p].user, product_id |-> req[p].arg,
                           quantity |-> quantity]]
            /\ req' = add_to_cart_response(p, NextRowId, cart', products)
            /\ cleared' = [cleared EXCEPT ![req[p].user] = FALSE]
    /\ UNCHANGED <<users, products, orders, subs, calls, favorites>>

\* ------------------------------------------------------ remove_from_cart
remove_from_cart_read(p) ==
    /\ req[p].pc = "handler"
    /\ req[p].op = "remove_from_cart"
    /\ LET item_id == req[p].arg IN
       req' = IF cart[item_id] # NoRow /\ cart[item_id].user_id = req[p].user
              THEN [req EXCEPT ![p].pc = "commit", ![p].snap = <<LoadCartItem(item_id)>>]
              ELSE Respond(p, 404, <<>>)
    /\ UNCHANGED <<store, calls, cleared>>

\* db.delete(item) is DELETE ... WHERE id = item.id; commit.
remove_from_cart_commit(p) ==
    /\ req[p].pc = "commit"
    /\ req[p].op = "remove_from_cart"
    /\ cart' = [cart EXCEPT ![req[p].snap[1].id] = NoRow]
    /\ req' = Respond(p, 200, <<>>)
    /\ UNCHANGED <<users, products, orders, subs, calls, cleared, favorites>>

\* ------------------------------------------------------ utils/telegram.py
\* what os.getenv gives for TELEGRAM_BOT_TOKEN ("" stands for unset or empty)
\* and for TELEGRAM_ADMIN_CHAT_IDS (a comma-separated list, <<>> when unset)
Tokens == {"", "token"}
AdminChatIdsRaw == {<<>>, <<" ", ",">>, <<"7", ",", " ", "8">>}
Envs == [token : Tokens, raw : AdminChatIdsRaw]
\* the environments create_order is run in: one admin chat, with and without
\* the token
OrderEnvs == [token : Tokens, raw : {<<"7">>}]

\* _get_token: None when the variable is missing or empty
get_token(token) == token

RECURSIVE split_comma(_, _)
\* raw.split(","): cur is the piece being read
split_comma(raw, cur) ==
    IF raw = <<>> THEN <<cur>>
    ELSE IF Head(raw) = "," THEN <<cur>> \o split_comma(Tail(raw), <<>>)
    ELSE split_comma(Tail(raw), Append(cur, Head(raw)))

RECURSIVE nonblank(_)
\* [value.strip() for value in values if value.strip()]
nonblank(values) ==
    IF values = <<>> THEN <<>>
    ELSE IF strip(Head(values)) = <<>> THEN nonblank(Tail(values))
    ELSE <<strip(Head(values))>> \o nonblank(Tail(values))

\* _get_admin_chat_ids
get_admin_chat_ids(raw) == IF raw = <<>> THEN <<>> ELSE nonblank(split_comma(raw, <<>>))

\* mutant: the loop stops at the first destination that fails
posts_until_failure(chat_ids, text, accepted) ==
    LET n == IF \E i \in DOMAIN chat_ids : ~accepted[i]
             THEN CHOOSE i \in DOMAIN chat_ids :
                     ~accepted[i] /\ \A k \in 1..(i - 1) : accepted[k]
             ELSE Len(chat_ids)
    IN [i \in 1..n |-> [chat_id |-> chat_ids[i], text |-> text, ok |-> accepted[i]]]

\* the for loop over chat_ids: one _post_json per destination; accepted[i]
\* tells whether the post to destination i returned or raised (caught, logged)
posts(chat_ids, text, accepted) ==
    [i \in DOMAIN chat_ids |-> [chat_id |-> chat_ids[i], text |-> text, ok |-> accepted[i]]]

\* mutant: the check of the token is left out
is_configured_any_token(token, chat_ids) == chat_ids # <<>>

\* "if not token or not chat_ids: return False" passed
is_configured(token, chat_ids) == token # "" /\ chat_ids # <<>>

\* mutant: success is the outcome of the last destination
success_of_last(attempts) == attempts # <<>> /\ attempts[Len(attempts)].ok

\* success after the loop: True once a post returned
success_of(attempts) == \E i \in DOMAIN attempts : attempts[i].ok

\* send_admin_message / send_user_message_to_admin (the same body, the second
\* one formats the text first): the environment read, the posts made, the
\* value returned
notify(fn, token, raw, text, accepted) ==
    LET chat_ids == get_admin_chat_ids(raw)
        attempts == IF is_configured(get_token(token), chat_ids)
                    THEN posts(chat_ids, text, accepted) ELSE <<>>
    IN [fn |-> fn, token |-> token, raw |-> raw, chat_ids |-> chat_ids,
        posts |-> attempts, result |-> success_of(attempts)]

\* the outcomes of the posts to n destinations
Accepted(n) == [1..n -> BOOLEAN]

\* ---------------------------------------------------------- create_order
RECURSIVE order_lines(_)
\* one OrderItem per valid cart item, name and price copied from the product
order_lines(valid_items) ==
    IF valid_items = <<>> THEN <<>>
    ELSE LET item == Head(valid_items)
             price == IF item.product.price = NoPrice THEN 0 ELSE item.product.price
         IN <<[product_id |-> item.product_id,
               product_name |-> item.product.name,
               price |-> price,
               quantity |-> 1]>> \o order_lines(Tail(valid_items))

\* mutant: "=" for "+=": the total is the last line's amount
order_total_last(lines, total_price) ==
    IF lines = <<>> THEN total_price
    ELSE lines[Len(lines)].price * lines[Len(lines)].quantity

RECURSIVE order_total(_, _)
\* order.total_price += price * quantity, line by line
order_total(lines, total_price) ==
    IF lines = <<>> THEN total_price
    ELSE order_total(Tail(lines), total_price + Head(lines).price * Head(lines).quantity)

\* SelectSeq without a lambda: the items of the cart with / without a product
RECURSIVE valid_of(_)
valid_of(cart_items) ==
    IF cart_items = <<>> THEN <<>>
    ELSE IF Head(cart_items).product = NoProduct THEN valid_of(Tail(cart_items))
         ELSE <<Head(cart_items)>> \o valid_of(Tail(cart_items))

RECURSIVE orphans_of(_)
orphans_of(cart_items) ==
    IF cart_items = <<>> THEN <<>>
    ELSE IF Head(cart_items).product = NoProduct
         THEN <<Head(cart_items).id>> \o orphans_of(Tail(cart_items))
         ELSE orphans_of(Tail(cart_items))

\* mutant: the final delete(CartItem).where(user_id) is left out
cart_after_order_orphans_only(user_id, orphan_ids) ==
    [r \in RowIds |-> IF r \in Range(orphan_ids) THEN NoRow ELSE cart[r]]

\* mutant: the final delete joins the products and skips rows without one
cart_after_order_valid_only(user_id, orphan_ids) ==
    [r \in RowIds |->
        IF r \in Range(orphan_ids) THEN NoRow
        ELSE IF cart[r] # NoRow /\ cart[r].user_id = user_id
                /\ products[cart[r].product_id] # NoProduct
             THEN NoRow ELSE cart[r]]

\* mutant: the final delete takes the rows the order was built from only
cart_after_order_snapshot_only(user_id, orphan_ids) ==
    LET consumed == UNION {{req[p].snap[i].id : i \in DOMAIN req[p].snap} :
                             p \in {q \in Procs : /\ req[q].op = "create_order"
                                                  /\ req[q].pc = "commit"
                                                  /\ req[q].user = user_id}}
    IN [r \in RowIds |->
          IF r \in Range(orphan_ids) THEN NoRow
          ELSE IF cart[r] # NoRow /\ cart[r].user_id = user_id /\ r \in consumed
               THEN NoRow ELSE cart[r]]

\* The cart after create_order's deletes: delete(CartItem) of the orphan ids,
\* then delete(CartItem).where(CartItem.user_id == user_id)
cart_after_order(user_id, orphan_ids) ==
    [r \in RowIds |->
        IF r \in Range(orphan_ids) THEN NoRow
        ELSE IF cart[r] # NoRow /\ cart[r].user_id = user_id
             THEN NoRow ELSE cart[r]]

\* mutant: the admins are told of the attempt before the cart is checked
empty_cart_response_notified(p, cart_items) ==
    [Respond(p, 400, <<>>) EXCEPT ![p].snap = cart_items,
        ![p].sent = <<notify("send_admin_message", "token", <<"7">>,
                             [kind |-> "admin_notification", order_id |-> 0,
                              user_id |-> req[p].user],
                             [i \in 1..1 |-> TRUE])>>]

\* raise HTTPException(status_code=400, detail="Cart is empty")
empty_cart_response(p, cart_items) ==
    [Respond(p, 400, <<>>) EXCEPT ![p].snap = cart_items]

\* create_order up to the check of valid_items.  With no valid item it raises
\* 400 after the orphan delete was executed but not committed: closing the
\* session rolls the delete back.
create_order_read(p) ==
    /\ req[p].pc = "handler"
    /\ req[p].op = "create_order"
    /\ LET cart_items == SelectCart(req[p].user)
           valid_items == valid_of(cart_items)
           orphan_ids == orphans_of(cart_items)
       IN req' = IF valid_items = <<>>
                 THEN empty_cart_response(p, cart_items)
                 ELSE [req EXCEPT ![p].pc = "commit", ![p].snap = cart_items,
                                  ![p].plan = [NoPlan EXCEPT !.valid_items = valid_items,
                                                             !.orphan_ids = orphan_ids]]
    /\ UNCHANGED <<store, calls, cleared>>

\* One transaction: the orphan delete, the Order with its items, the delete of
\* every cart row of the user; commit.  The order is read back (order_with_items).
create_order_commit(p) ==
    /\ req[p].pc = "commit"
    /\ req[p].op = "create_order"
    /\ Len(orders) < MaxOrders
    /\ LET plan == req[p].plan
           lines == order_lines(plan.valid_items)
           order == [id |-> Len(orders) + 1,
                     total_price |-> order_total(lines, 0),
                     status |-> "received",
                     items |-> lines]
       IN /\ orders' = Append(orders, order)
          /\ cart' = cart_after_order(req[p].user, plan.orphan_ids)
          /\ req' = [req EXCEPT ![p].pc = "notify_admin", ![p].body = <<order>>]
    /\ cleared' = [cleared EXCEPT ![req[p].user] = TRUE]
    /\ UNCHANGED <<users, products, subs, calls, favorites>>

\* await send_admin_message(admin_notification): the summary of the order read
\* back; the value returned is dropped
send_admin_message(p) ==
    /\ req[p].pc = "notify_admin"
    /\ req[p].op = "create_order"
    /\ \E env \in OrderEnvs :
         \E accepted \in Accepted(Len(get_admin_chat_ids(env.raw))) :
            LET order_with_items == req[p].body[1]
                admin_notification ==
                    [kind |-> "admin_notification", order_id |-> order_with_items.id,
                     user_id |-> req[p].user]
            IN req' = [req EXCEPT ![p].pc = "notify_user",
                          ![p].sent = Append(@, notify("send_admin_message", env.token, env.raw,
                                                       admin_notification, accepted))]
    /\ UNCHANGED <<store, calls, cleared>>

\* mutant: the order is answered only when the admins were reached
order_response_if_delivered(p, delivered) ==
    IF delivered THEN [pc |-> "done", status |-> 201] ELSE [pc |-> "done", status |-> 500]

\* "return order_with_items" after the try / except around the second send:
\* 201 whatever the sends returned
order_response(p, delivered) == [pc |-> "done", status |-> 201]

\* await send_user_message_to_admin(user_id, user_message) inside try / except,
\* then the response.  The process environment is the one the first send read.
send_user_message_to_admin(p) ==
    /\ req[p].pc = "notify_user"
    /\ req[p].op = "create_order"
    /\ \E token \in {req[p].sent[1].token}, raw \in {req[p].sent[1].raw} :
         \E accepted \in Accepted(Len(get_admin_chat_ids(raw))) :
            LET user_message == [kind |-> "user_message", order_id |-> 0,
                                 user_id |-> req[p].user]
                sending == notify("send_user_message_to_admin", token, raw,
                                  user_message, accepted)
                response == order_response(p, req[p].sent[1].result /\ sending.result)
            IN req' = [req EXCEPT ![p].pc = response.pc, ![p].status = response.status,
                                  ![p].sent = Append(@, sending)]
    /\ UNCHANGED <<store, calls, cleared>>

\* ------------------------------------------------- store.py and admin.py
\* ProductCreate payloads: the catalog is filled with Shirt A and Shirt B in
\* turn (the product that gets an odd id is Shirt A)
ProductCreates ==
    {IF NextProductId % 2 = 1
     THEN [name |-> "Shirt A", price |-> 85, image_url |-> RelImage]
     ELSE [name |-> "Shirt B", price |-> 90, image_url |-> RelImage]}
\* ProductUpdate payloads: unset lists the fields the request left out
ProductUpdates == {[name |-> "Shirt C", price |-> NoPrice, unset |-> {"price"}],
                   [name |-> "", price |-> NoPrice, unset |-> {"name"}]}

\* POST /products/
create_product(payload) ==
    /\ calls < MaxCalls
    /\ NextProductId <= MaxProductId
    /\ products' = [products EXCEPT ![NextProductId] =
                      [name |-> payload.name, price |-> payload.price,
                       image_url |-> payload.image_url]]
    /\ calls' = calls + 1
    /\ UNCHANGED <<users, cart, orders, subs, req, cleared, favorites>>

\* PUT /products/{product_id}: the fields the payload sets are assigned
update_product(product_id, payload) ==
    /\ calls < MaxCalls
    /\ products[product_id] # NoProduct
    /\ products' = [products EXCEPT ![product_id] =
                      [@ EXCEPT !.name = IF "name" \in payload.unset THEN @ ELSE payload.name,
                                !.price = IF "price" \in payload.unset THEN @ ELSE payload.price]]
    /\ calls' = calls + 1
    /\ UNCHANGED <<users, cart, orders, subs, req, cleared, favorites>>

\* mutant: the delete cascades to the order items that reference the product
orders_after_delete_cascade(product_id) ==
    [i \in DOMAIN orders |->
        [orders[i] EXCEPT !.items =
            SelectSeq(@, LAMBDA line : line.product_id # product_id)]]

\* The orders after a product is deleted: OrderItem.product_id is a plain
\* foreign key (no ondelete, none enforced by SQLite), so the items stay
orders_after_delete(product_id) == orders

\* DELETE /products/{product_id}: db.delete(product) cascades to the gallery
\* only; cart rows that reference the product stay as they are
delete_product(product_id) ==
    /\ calls < MaxCalls
    /\ products[product_id] # NoProduct
    /\ products' = [products EXCEPT ![product_id] = NoProduct]
    /\ orders' = orders_after_delete(product_id)
    /\ calls' = calls + 1
    /\ UNCHANGED <<users, cart, subs, req, cleared, favorites>>

\* PATCH /orders/{order_id}
update_order_status(order_id, status) ==
    /\ calls < MaxCalls
    /\ order_id \in DOMAIN orders
    /\ orders[order_id].status # status
    /\ orders' = [orders EXCEPT ![order_id].status = status]
    /\ calls' = calls + 1
    /\ UNCHANGED <<users, products, cart, subs, req, cleared, favorites>>

\* The admin console edits a cart row (CartItemAdmin allows edits)
CartItemAdmin(id, quantity) ==
    /\ calls < MaxCalls
    /\ cart[id] # NoRow
    /\ cart[id].quantity # quantity
    /\ cart' = [cart EXCEPT ![id].quantity = quantity]
    /\ calls' = calls + 1
    /\ UNCHANGED <<users, products, orders, subs, req, cleared, favorites>>

\* ------------------------------------------------------ the specification
Next ==
    \/ \E p \in Procs : Request(p)
    \/ \E p \in Procs : get_current_user_id(p)
    \/ \E p \in Procs : get_cart_read(p)
    \/ \E p \in Procs : get_cart_commit(p)
    \/ \E p \in Procs : add_to_cart_read(p)
    \/ \E p \in Procs : add_to_cart_commit(p)
    \/ \E p \in Procs : remove_from_cart_read(p)
    \/ \E p \in Procs : remove_from_cart_commit(p)
    \/ \E p \in Procs : create_order_read(p)
    \/ \E p \in Procs : create_order_commit(p)
    \/ \E p \in Procs : send_admin_message(p)
    \/ \E p \in Procs : send_user_message_to_admin(p)
    \/ \E payload \in ProductCreates : create_product(payload)
    \/ \E i \in ProductIds, payload \in ProductUpdates : update_product(i, payload)
    \/ \E i \in ProductIds : delete_product(i)
    \/ \E o \in 1..MaxOrders : update_order_status(o, "paid")
    \/ \E r \in RowIds, q \in Quantities : CartItemAdmin(r, q)

Spec == Init /\ [][Next]_vars

\* ------------------------------------------------------------- favorites
\* rowid of the next INSERT into favorites
NextFavId == Max({f \in FavIds : favorites[f] # NoRow}) + 1

\* A Favorite object as a session loads it, with its product relationship
LoadFavorite(f) ==
    [id |-> f,
     user_id |-> favorites[f].user_id,
     product_id |-> favorites[f].product_id,
     product |-> IF favorites[f].product_id \in ProductIds
                 THEN products[favorites[f].product_id] ELSE NoProduct]

\* select(Favorite).where(Favorite.user_id == user_id) with selectinload(product)
SelectFavorites(u) ==
    LET ids == Ascending({f \in FavIds : favorites[f] # NoRow /\ favorites[f].user_id = u})
    IN [i \in 1..Len(ids) |-> LoadFavorite(ids[i])]

\* select(Favorite).where(user_id == u, product_id == pid)
SelectFavorite(u, pid) ==
    LET ids == Ascending({f \in FavIds : favorites[f] # NoRow /\ favorites[f].user_id = u
                                          /\ favorites[f].product_id = pid})
    IN [i \in 1..Len(ids) |-> LoadFavorite(ids[i])]

\* the favorites requests sent: user 1 reads, adds and removes every product
\* id, user 2 adds and removes product 1
FavRequests ==
    [op : {"get_favorites"}, user : {1}, arg : {0}]
    \cup [op : {"add_favorite", "remove_favorite"}, user : {1}, arg : ProductIds]
    \cup [op : {"add_favorite", "remove_favorite"}, user : {2}, arg : {1}]

\* A favorites request arrives: get_current_user_id selects the User.
FavRequest(p) ==
    /\ req[p].pc \in {"idle", "done"}
    /\ calls < MaxCalls
    /\ \E r \in FavRequests :
            req' = [req EXCEPT ![p] =
                      [Idle EXCEPT !.pc = IF r.user \in users THEN "handler" ELSE "adduser",
                                   !.op = r.op, !.user = r.user, !.arg = r.arg]]
    /\ calls' = calls + 1
    /\ UNCHANGED <<store, cleared>>

RECURSIVE get_favorites_loop(_, _)
\* the loop of get_favorites over the fetched rows; dirty_products are the
\* Product objects the loop modified, which the session flushes at a commit
get_favorites_loop(favs, acc) ==
    IF favs = <<>> THEN acc
    ELSE LET fav == Head(favs) IN
        IF fav.product = NoProduct
        THEN get_favorites_loop(Tail(favs), [acc EXCEPT !.orphan_ids = Append(@, fav.id)])
        ELSE LET normal == normalize_product_media(BaseUrl, fav.product) IN
             get_favorites_loop(Tail(favs),
                 [acc EXCEPT
                    !.dirty_products = IF normal # fav.product
                                       THEN @ \cup {fav.product_id} ELSE @,
                    !.valid_items = Append(@, [fav EXCEPT !.product = normal])])

\* get_favorites up to its first write: without orphan it returns uncommitted
get_favorites_read(p) ==
    /\ req[p].pc = "handler"
    /\ req[p].op = "get_favorites"
    /\ LET favs == SelectFavorites(req[p].user)
           plan == get_favorites_loop(favs, NoPlan)
       IN req' = IF plan.orphan_ids # <<>>
                 THEN [req EXCEPT ![p].pc = "commit", ![p].snap = favs, ![p].plan = plan]
                 ELSE [req EXCEPT ![p].pc = "done", ![p].snap = favs, ![p].plan = plan,
                                  ![p].status = 200, ![p].body = plan.valid_items]
    /\ UNCHANGED <<store, calls, cleared>>

\* The flush of the modified Product objects (StaleDataError when one is gone),
\* delete(Favorite).where(Favorite.id.in_(orphan_ids)), commit.
get_favorites_commit(p) ==
    /\ req[p].pc = "commit"
    /\ req[p].op = "get_favorites"
    /\ LET plan == req[p].plan
           stale == \E i \in plan.dirty_products : products[i] = NoProduct
       IN IF stale
          THEN /\ req' = Respond(p, 500, <<>>)
               /\ UNCHANGED <<favorites, products>>
          ELSE /\ favorites' = [f \in FavIds |->
                                 IF f \in Range(plan.orphan_ids) THEN NoRow ELSE favorites[f]]
               /\ products' = [i \in ProductIds |->
                                IF i \in plan.dirty_products
                                THEN [products[i] EXCEPT !.image_url =
                                        build_absolute_url(BaseUrl, @)]
                                ELSE products[i]]
               /\ req' = Respond(p, 200, plan.valid_items)
    /\ UNCHANGED <<users, cart, orders, subs, calls, cleared>>

\* mutant: the check for an existing favorite is left out
already_favorite_never(rows) == FALSE

\* "if result.scalar_one_or_none()": a Favorite of this user and product exists
already_favorite(rows) == rows # <<>>

\* add_favorite's select: scalar_one_or_none raises MultipleResultsFound on
\* several rows (500); one row is "Already in favorites" (400).  The product
\* id is not looked up.
add_favorite_read(p) ==
    /\ req[p].pc = "handler"
    /\ req[p].op = "add_favorite"
    /\ LET rows == SelectFavorite(req[p].user, req[p].arg) IN
       req' = IF Len(rows) > 1 THEN [Respond(p, 500, <<>>) EXCEPT ![p].snap = rows]
              ELSE IF already_favorite(rows)
                   THEN [Respond(p, 400, <<>>) EXCEPT ![p].snap = rows]
                   ELSE [req EXCEPT ![p].pc = "commit", ![p].snap = rows]
    /\ UNCHANGED <<store, calls, cleared>>

\* The response of add_favorite: the row read back with its product; without a
\* product FavoriteSchema cannot be built and the request fails, the row stays.
add_favorite_response(p, id, products1) ==
    IF products1[req[p].arg] = NoProduct THEN Respond(p, 500, <<>>)
    ELSE Respond(p, 200,
            <<[id |-> id, user_id |-> req[p].user, product_id |-> req[p].arg,
               product |-> normalize_product_media(BaseUrl, products1[req[p].arg])]>>)

\* db.add(Favorite(user_id, product_id)); commit
add_favorite_commit(p) ==
    /\ req[p].pc = "commit"
    /\ req[p].op = "add_favorite"
    /\ NextFavId <= MaxFavId
    /\ favorites' = [favorites EXCEPT ![NextFavId] =
                       [user_id |-> req[p].user, product_id |-> req[p].arg]]
    /\ req' = add_favorite_response(p, NextFavId, products)
    /\ UNCHANGED <<users, products, cart, orders, subs, calls, cleared>>

\* remove_favorite's select: MultipleResultsFound on several rows (500); with
\* no row it answers {"status": "deleted"} at once.
remove_favorite_read(p) ==
    /\ req[p].pc = "handler"
    /\ req[p].op = "remove_favorite"
    /\ LET rows == SelectFavorite(req[p].user, req[p].arg) IN
       req' = IF Len(rows) > 1 THEN [Respond(p, 500, <<>>) EXCEPT ![p].snap = rows]
              ELSE IF rows # <<>> THEN [req EXCEPT ![p].pc = "commit", ![p].snap = rows]
              ELSE [Respond(p, 200, <<>>) EXCEPT ![p].snap = rows]
    /\ UNCHANGED <<store, calls, cleared>>

\* db.delete(item) is DELETE ... WHERE id = item.id; commit.
remove_favorite_commit(p) ==
    /\ req[p].pc = "commit"
    /\ req[p].op = "remove_favorite"
    /\ favorites' = [favorites EXCEPT ![req[p].snap[1].id] = NoRow]
    /\ req' = Respond(p, 200, <<>>)
    /\ UNCHANGED <<users, products, cart, orders, subs, calls, cleared>>

NextFav ==
    \/ \E p \in Procs : FavRequest(p)
    \/ \E p \in Procs : get_current_user_id(p)
    \/ \E p \in Procs : get_favorites_read(p)
    \/ \E p \in Procs : get_favorites_commit(p)
    \/ \E p \in Procs : add_favorite_read(p)
    \/ \E p \in Procs : add_favorite_commit(p)
    \/ \E p \in Procs : remove_favorite_read(p)
    \/ \E p \in Procs : remove_favorite_commit(p)
    \/ \E payload \in ProductCreates : create_product(payload)
    \/ \E i \in ProductIds : delete_product(i)

FavSpec == Init /\ [][NextFav]_vars

\* ------------------------------------------------ the notification sink
MaxNotifies == 2
SinkFunctions == {"send_admin_message", "send_user_message_to_admin"}

\* One call of send_admin_message(text) (as utils/telegram.py's _main makes) or
\* of send_user_message_to_admin(user_id, message_text), in any environment
\* and with any outcome of the posts; body is the value returned.
Notify(p) ==
    /\ req[p].pc \in {"idle", "done"}
    /\ calls < MaxNotifies
    /\ \E fn \in SinkFunctions, env \in Envs :
         \E accepted \in Accepted(Len(get_admin_chat_ids(env.raw))) :
            LET text == [kind |-> "test_message", order_id |-> 0, user_id |-> 0]
                sending == notify(fn, env.token, env.raw, text, accepted)
            IN req' = [req EXCEPT ![p] =
                         [Idle EXCEPT !.pc = "done", !.op = fn,
                                      !.body = <<sending.result>>,
                                      !.sent = <<sending>>]]
    /\ calls' = calls + 1
    /\ UNCHANGED <<store, cleared>>

NextNotify == \E p \in Procs : Notify(p)

NotifySpec == Init /\ [][NextNotify]_vars

\* =========================================================== the webhook
SIZE_BUTTONS == <<"XS", "S", "M", "L", "XL">>
START_TEXT == "START_TEXT"
StartCmd == <<"/", "s", "t", "a", "r", "t">>
SizeCmd == <<"/", "s", "i", "z", "e">>
SizePrefix == <<"s", "i", "z", "e", ":">>
SizeOffText == <<"/", "s", "i", "z", "e", " ", "o", "f", "f">>
OffWord == <<"O", "F", "F">>
DisableWords == {<<"o", "f", "f">>, <<"s", "t", "o", "p">>, <<"c", "a", "n", "c", "e", "l">>}

\* the replies (their fixed wording is named, the size they quote is kept)
UsageReply == [text |-> "usage: /size M, /size off", size |-> <<>>, reply_markup |-> <<>>]
DisabledReply == [text |-> "size notifications disabled", size |-> <<>>, reply_markup |-> <<>>]
ReadyReply(size_value) ==
    [text |-> "ready: will send new items of size", size |-> size_value, reply_markup |-> <<>>]
HintReply == [text |-> "hint: write /start", size |-> <<>>, reply_markup |-> <<>>]
\* the inline keyboard of /start: one button per size, then the disable button
StartKeyboard ==
    [i \in 1..Len(SIZE_BUTTONS) |-> [text |-> SIZE_BUTTONS[i], callback_data |-> "size:" \o SIZE_BUTTONS[i]]]
    \o <<[text |-> "disable notifications", callback_data |-> "size:OFF"]>>
StartReply == [text |-> START_TEXT, size |-> <<>>, reply_markup |-> StartKeyboard]

\* mutant: the keyword is compared as typed
is_disable_as_typed(arg) == arg \in DisableWords

\* arg.lower() in {"off", "stop", "cancel"}
is_disable(arg) == lower(arg) \in DisableWords

\* the SizeSubscription rows of a user
SubsOf(u) ==
    LET rows == {r \in BagToSet(subs) : r.user_id = u}
    IN [r \in rows |-> subs[r]]

\* delete(SizeSubscription).where(SizeSubscription.user_id == chat_id)
subs_without(chat_id) ==
    LET rows == {r \in BagToSet(subs) : r.user_id # chat_id}
    IN [r \in rows |-> subs[r]]

\* mutant: the new row is added without the delete of the old ones
subs_after_size_add_only(chat_id, arg) ==
    IF is_disable(arg) THEN subs_without(chat_id)
    ELSE subs (+) SetToBag({[user_id |-> chat_id, size |-> upper(arg)]})

\* the table after _handle_size_command's transaction
subs_after_size(chat_id, arg) ==
    IF is_disable(arg) THEN subs_without(chat_id)
    ELSE subs_without(chat_id) (+) SetToBag({[user_id |-> chat_id, size |-> upper(arg)]})

\* the text _handle_size_command returns
size_reply(arg) == IF is_disable(arg) THEN DisabledReply ELSE ReadyReply(upper(arg))

\* mutant: the command is built without the blank before the value
callback_cmd_text_glued(data) ==
    LET value == after_colon(data)
    IN IF upper(value) = OffWord THEN SizeOffText ELSE SizeCmd \o value

\* cmd_text of a size: callback
callback_cmd_text(data) ==
    LET value == after_colon(data)
    IN IF upper(value) = OffWord THEN SizeOffText ELSE SizeCmd \o <<" ">> \o value

\* inbound updates: message texts, callback payloads, chat / user ids (0: none)
Texts == {<<"/", "s", "t", "a", "r", "t">>, <<"/", "s", "i", "z", "e">>, <<"/", "s", "i", "z", "e", " ", "M">>, <<"/", "s", "i", "z", "e", " ", "x", "l">>, <<"/", "s", "i", "z", "e", " ", " ", "m", " ">>,
          <<"/", "s", "i", "z", "e", " ", "o", "f", "f">>, <<"/", "s", "i", "z", "e", " ", "O", "F", "F">>, <<"/", "s", "i", "z", "e", " ", "S", "t", "o", "p">>, <<"/", "s", "i", "z", "e", " ", "c", "a", "n", "c", "e", "l">>,
          <<"/", "s", "i", "z", "e", "s", " ", "M">>, <<"h", "e", "l", "l", "o">>}
CallbackData == {<<"s", "i", "z", "e", ":", "M">>, <<"s", "i", "z", "e", ":", "O", "F", "F">>, <<"s", "i", "z", "e", ":", "o", "f", "f">>,
                 <<"s", "i", "z", "e", ":">>, <<"n", "o", "o", "p">>}
\* user 1 sends every text and payload, user 2 subscribes and disables, and
\* one message and one callback come without a chat / user id (0)
ChatIds == Users \cup {0}
BotUpdates ==
    [kind : {"message"}, id : {1}, text : Texts]
    \cup [kind : {"message"}, id : {2}, text : {<<"/", "s", "i", "z", "e", " ", "M">>, <<"/", "s", "i", "z", "e", " ", "o", "f", "f">>}]
    \cup [kind : {"message"}, id : {0}, text : {<<"/", "s", "i", "z", "e", " ", "M">>}]
    \cup [kind : {"edited_message"}, id : {1}, text : {<<"/", "s", "i", "z", "e", " ", "L">>}]
    \cup [kind : {"callback_query"}, id : {1}, text : CallbackData]
    \cup [kind : {"callback_query"}, id : {0}, text : {<<"s", "i", "z", "e", ":", "M">>}]
    \cup [kind : {"none"}, id : {0}, text : {<<>>}]

\* POST /telegram/webhook arrives with a parsed update
Update(p) ==
    /\ req[p].pc \in {"idle", "done"}
    /\ calls < MaxUpdates
    /\ \E update \in BotUpdates :
          req' = [req EXCEPT ![p] =
                    [Idle EXCEPT !.pc = "handler", !.op = "telegram_webhook",
                                 !.user = update.id, !.update = update]]
    /\ calls' = calls + 1
    /\ UNCHANGED <<store, cleared>>

\* _handle_size_command up to _ensure_user's select: the usage text without
\* an argument, else the argument is kept and the User row looked up
begin_size_command(p, chat_id, text) ==
    LET parts == split_maxsplit1(text) IN
    IF Len(parts) = 1
    THEN [req EXCEPT ![p].pc = "send", ![p].user = chat_id, ![p].body = UsageReply]
    ELSE [req EXCEPT ![p].pc = IF chat_id \in users THEN "subscribe" ELSE "adduser",
                     ![p].user = chat_id,
                     ![p].plan = [arg |-> strip(parts[2])]]

\* mutant: a callback that is no size: button is answered with the hint
ignored_callback_hinted(p) == [req EXCEPT ![p].pc = "send", ![p].body = HintReply]

\* a callback whose data does not start with "size:": return {"ok": True}
ignored_callback(p) == Respond(p, 200, [ok |-> TRUE])

\* the branches of telegram_webhook for an update, up to the first database or
\* network call: the request of coroutine p afterwards
webhook_dispatch(p, update) ==
    LET text == strip(update.text) IN
          IF update.kind = "callback_query"
          THEN IF update.id = 0 THEN Respond(p, 200, [ok |-> FALSE])
               ELSE IF startswith(text, SizePrefix)
                    THEN begin_size_command(p, update.id, callback_cmd_text(text))
                    ELSE ignored_callback(p)
          ELSE IF update.kind = "none" THEN Respond(p, 200, [ok |-> TRUE])
          ELSE IF update.id = 0 THEN Respond(p, 200, [ok |-> FALSE])
          ELSE IF startswith(text, StartCmd)
               THEN [req EXCEPT ![p].pc = "send", ![p].body = StartReply]
          ELSE IF startswith(text, SizeCmd)
               THEN begin_size_command(p, update.id, text)
          ELSE [req EXCEPT ![p].pc = "send", ![p].body = HintReply]

\* telegram_webhook up to its first database or network call
telegram_webhook(p) ==
    /\ req[p].pc = "handler"
    /\ req[p].op = "telegram_webhook"
    /\ req' = webhook_dispatch(p, req[p].update)
    /\ UNCHANGED <<store, calls, cleared>>

\* _ensure_user's insert and commit; the IntegrityError of a row that appeared
\* since the select is not caught: the request fails
ensure_user(p) ==
    /\ req[p].pc = "adduser"
    /\ req[p].op = "telegram_webhook"
    /\ IF req[p].user \in users
       THEN req' = Respond(p, 500, <<>>) /\ UNCHANGED users
       ELSE users' = users \cup {req[p].user} /\ req' = [req EXCEPT ![p].pc = "subscribe"]
    /\ UNCHANGED <<products, cart, orders, subs, calls, cleared, favorites>>

\* _handle_size_command's transaction: the delete, the insert unless the
\* argument disables, the commit
handle_size_command(p) ==
    /\ req[p].pc = "subscribe"
    /\ req[p].op = "telegram_webhook"
    /\ subs' = subs_after_size(req[p].user, req[p].plan.arg)
    /\ req' = [req EXCEPT ![p].pc = "send", ![p].body = size_reply(req[p].plan.arg)]
    /\ UNCHANGED <<users, products, cart, orders, calls, cleared, favorites>>

\* send_message: False without a token or when the post fails, which the
\* webhook ignores; it answers {"ok": True}
send_message(p) ==
    /\ req[p].pc = "send"
    /\ req[p].op = "telegram_webhook"
    /\ \E delivered \in BOOLEAN :
          req' = [req EXCEPT ![p].pc = "done", ![p].status = 200,
                             ![p].sent = IF delivered
                                         THEN <<[chat_id |-> req[p].user, message |-> req[p].body]>>
                                         ELSE <<>>]
    /\ UNCHANGED <<store, calls, cleared>>

NextBot ==
    \/ \E p \in Procs : Update(p)
    \/ \E p \in Procs : telegram_webhook(p)
    \/ \E p \in Procs : ensure_user(p)
    \/ \E p \in Procs : handle_size_command(p)
    \/ \E p \in Procs : send_message(p)

BotSpec == Init /\ [][NextBot]_vars

\* ================================================================ claims
\* coroutine p takes the step of handler op that leads from pc a to pc b
Step(p, op, a, b) == req[p].op = op /\ req[p].pc = a /\ req'[p].pc = b

\* the cart rows of user u in a cart table c
RowsOf(c, u) == {r \in RowIds : c[r] # NoRow /\ c[r].user_id = u}

\* no other request changed what p's select read: the cart as p fetched it is
\* the cart that is persisted when p writes
Quiet(p) == SelectCart(req[p].user) = req[p].snap

\* ---- C1: PlaceOrder is all-or-nothing.  Whenever an Order is persisted, it
\* is persisted by a successful create_order, with all its lines, in the same
\* commit that empties the caller's cart: none of the cart rows it was built
\* from exists in that committed state.  A create_order that fails persists no
\* Order and no OrderLine.
C1_Step ==
    /\ orders' # orders /\ Len(orders') # Len(orders) =>
         \E p \in Procs :
            /\ Step(p, "create_order", "commit", "notify_admin")
            /\ orders' = Append(orders, req'[p].body[1])
            /\ Len(req'[p].body[1].items) = Len(req[p].plan.valid_items)
            /\ Len(req'[p].body[1].items) >= 1
            /\ RowsOf(cart', req[p].user) = {}
            /\ \A i \in DOMAIN req[p].snap :
                  LET row == req[p].snap[i] IN
                  ~(cart'[row.id] # NoRow /\ cart'[row.id].user_id = row.user_id)
    /\ \A p \in Procs :
         (req[p].op = "create_order" /\ req'[p] # req[p] /\ req'[p].pc = "done"
            /\ req'[p].status # 201) => orders' = orders
    /\ \A p \in Procs :
         (req[p].op = "create_order" /\ req'[p] # req[p] /\ req'[p].pc = "done"
            /\ req'[p].status = 201)
         => /\ req[p].pc = "notify_user"
            /\ req'[p].body[1].id \in DOMAIN orders'
            /\ orders'[req'[p].body[1].id].items = req'[p].body[1].items
    /\ \A p \in Procs :
         Step(p, "create_order", "commit", "notify_admin")
         => Len(orders') = Len(orders) + 1

C1_AllOrNothing == [][C1_Step]_vars

\* an order with two lines was placed and the caller's cart is empty
C1_Witness ==
    \E p \in Procs :
        /\ req[p].op = "create_order" /\ req[p].pc = "done" /\ req[p].status = 201
        /\ Len(req[p].body[1].items) = 2
        /\ Len(req[p].snap) = 2
        /\ RowsOf(cart, req[p].user) = {}
        /\ orders # <<>>

\* ---- C2: for a cart holding only orphan rows, PlaceOrder fails with the
\* empty-cart error (400), creates no Order, and when the call has finished the
\* orphan rows are gone from the persisted cart.
C2_Step ==
    \A p \in Procs :
        (Step(p, "create_order", "handler", "done") /\ SelectCart(req[p].user) # <<>>
           /\ \A i \in DOMAIN SelectCart(req[p].user) :
                 SelectCart(req[p].user)[i].product = NoProduct)
        => /\ req'[p].status = 400
           /\ orders' = orders
           /\ RowsOf(cart', req[p].user) = {}

C2_OrphanOnlyCartPurged == [][C2_Step]_vars

\* ---- C3: a successful PlaceOrder returns an Order whose total_price is the
\* sum of price * quantity over its lines, with exactly one line per cart row
\* read whose product existed, in fetch order, each of quantity 1.
C3_TotalPriceConsistent ==
    \A p \in Procs :
        (req[p].op = "create_order" /\ req[p].pc = "done" /\ req[p].status = 201) =>
            LET order == req[p].body[1]
                read == valid_of(req[p].snap)
            IN /\ order.total_price =
                    SeqSum([i \in DOMAIN order.items |->
                              order.items[i].price * order.items[i].quantity])
               /\ Len(order.items) =
                    Cardinality({i \in DOMAIN req[p].snap :
                                    req[p].snap[i].product # NoProduct})
               /\ \A i \in DOMAIN order.items :
                    /\ order.items[i].quantity = 1
                    /\ order.items[i].product_id = read[i].product_id

\* the scenario of the specification: Shirt A at 85 and Shirt B at 90 make 175
C3_Witness ==
    \E p \in Procs :
        /\ req[p].op = "create_order" /\ req[p].pc = "done" /\ req[p].status = 201
        /\ Len(req[p].body[1].items) = 2
        /\ req[p].body[1].total_price = 175

\* ---- C4: a successful PlaceOrder deletes every cart row of the user (orphan
\* rows and rows that are in no line included), and a ReadCart of the same
\* user that follows with no add_to_cart insert in between returns the empty
\* list.
C4_Step ==
    \A p \in Procs :
        /\ Step(p, "create_order", "commit", "notify_admin") =>
              RowsOf(cart', req[p].user) = {}
        /\ (Step(p, "get_cart", "handler", "done") \/ Step(p, "get_cart", "handler", "commit"))
              /\ cleared[req[p].user]
           => /\ req'[p].pc = "done"
              /\ req'[p].status = 200
              /\ req'[p].body = <<>>

C4_ReadCartAfterOrderEmpty == [][C4_Step]_vars

\* a ReadCart answered with the empty list after the user's order
C4_Witness ==
    \E p \in Procs :
        /\ req[p].op = "get_cart" /\ req[p].pc = "done" /\ req[p].status = 200
        /\ req[p].body = <<>>
        /\ cleared[req[p].user]
        /\ orders # <<>>

\* ---- C5: OrderLine name and price are frozen at order time.  No step of
\* any handler (product update, product delete, cart and order-status
\* operations, further orders) changes the product_name or price of a line of
\* an Order that exists, nor removes a line.
C5_Step ==
    \A i \in DOMAIN orders :
        /\ i \in DOMAIN orders'
        /\ Len(orders'[i].items) = Len(orders[i].items)
        /\ \A j \in DOMAIN orders[i].items :
              /\ orders'[i].items[j].product_name = orders[i].items[j].product_name
              /\ orders'[i].items[j].price = orders[i].items[j].price

C5_OrderLinesFrozen == [][C5_Step]_vars

\* an order line keeps the name it was created with while its product has
\* been renamed since, and an order's status has been changed
C5_Witness ==
    /\ \E i \in DOMAIN orders : \E j \in DOMAIN orders[i].items :
          LET line == orders[i].items[j] IN
          /\ products[line.product_id] # NoProduct
          /\ products[line.product_id].name # line.product_name
    /\ \E i \in DOMAIN orders : orders[i].status = "paid"

\* ---- C6: when the cart ReadCart fetched holds several rows for one existing
\* product (and no other request changes that cart before ReadCart writes),
\* ReadCart returns exactly one row per distinct existing product, the first
\* in fetch order, and its commit leaves the persisted cart of the user with
\* exactly one row for each of these products and none for any other: the
\* duplicate rows are deleted in that commit.
ProductsIn(items) ==
    {items[i].product_id : i \in {k \in DOMAIN items : items[k].product # NoProduct}}

\* the id of the first fetched row of product pid
FirstRow(items, pid) ==
    items[CHOOSE i \in DOMAIN items :
            /\ items[i].product_id = pid
            /\ \A k \in DOMAIN items : items[k].product_id = pid => i <= k].id

HasDuplicates(items) ==
    \E i, j \in DOMAIN items :
        /\ i # j /\ items[i].product_id = items[j].product_id
        /\ items[i].product # NoProduct

\* the cart rows get_cart fetched, at the step that completes the call
Fetched(p) == IF req[p].pc = "handler" THEN SelectCart(req[p].user) ELSE req[p].snap

\* this step completes a get_cart whose fetched cart is still the persisted one
Completes(p) ==
    /\ req[p].op = "get_cart" /\ req[p].pc \in {"handler", "commit"}
    /\ req'[p].pc = "done"
    /\ req[p].pc = "commit" => Quiet(p)

C6_Step ==
    \A p \in Procs :
        (Completes(p) /\ HasDuplicates(Fetched(p)))
        => LET u == req[p].user
               snap == Fetched(p)
               body == req'[p].body
           IN /\ req'[p].status = 200
              /\ {body[i].product_id : i \in DOMAIN body} = ProductsIn(snap)
              /\ Len(body) = Cardinality(ProductsIn(snap))
              /\ \A i \in DOMAIN body : body[i].id = FirstRow(snap, body[i].product_id)
              /\ \A pid \in ProductIds :
                    Cardinality({r \in RowsOf(cart', u) : cart'[r].product_id = pid})
                        = IF pid \in ProductsIn(snap) THEN 1 ELSE 0
              /\ \A r \in RowsOf(cart', u) :
                    \E i \in DOMAIN body : body[i].id = r
              /\ \A i \in DOMAIN snap :
                    (\E k \in 1..(i - 1) : snap[k].product_id = snap[i].product_id)
                        => cart'[snap[i].id] = NoRow

C6_ReadCartDedups == [][C6_Step]_vars

\* a ReadCart that fetched two rows of one product returned one of them
C6_Witness ==
    \E p \in Procs :
        /\ req[p].op = "get_cart" /\ req[p].pc = "done" /\ req[p].status = 200
        /\ Len(req[p].snap) = 2
        /\ req[p].snap[1].product_id = req[p].snap[2].product_id
        /\ req[p].snap[1].product # NoProduct
        /\ Len(req[p].body) = 1
        /\ Cardinality(RowsOf(cart, req[p].user)) = 1

\* ---- C7: ReadCart never returns a row whose product is absent; an empty
\* cart yields the empty list with status 200; and when ReadCart's write is
\* reached with the cart as it was fetched, it succeeds and every orphan row
\* that was fetched is deleted in its commit.
C7_Step ==
    \A p \in Procs :
        /\ (req[p].op = "get_cart" /\ req[p].pc = "handler" /\ req'[p] # req[p]
              /\ SelectCart(req[p].user) = <<>>)
           => req'[p].pc = "done" /\ req'[p].status = 200 /\ req'[p].body = <<>>
        /\ (req[p].op = "get_cart" /\ req'[p] # req[p] /\ req'[p].pc = "done")
           => \A i \in DOMAIN req'[p].body : req'[p].body[i].product # NoProduct
        /\ Completes(p)
           => /\ req'[p].status = 200
              /\ \A i \in DOMAIN Fetched(p) :
                    Fetched(p)[i].product = NoProduct => cart'[Fetched(p)[i].id] = NoRow

C7_ReadCartPurgesOrphans == [][C7_Step]_vars

\* a ReadCart fetched an orphan row, returned the empty list, and the row is
\* gone from the persisted cart
C7_Witness ==
    \E p \in Procs :
        /\ req[p].op = "get_cart" /\ req[p].pc = "done" /\ req[p].status = 200
        /\ Len(req[p].snap) = 1 /\ req[p].body = <<>>
        /\ req[p].snap[1].product = NoProduct
        /\ cart[req[p].snap[1].id] = NoRow
        /\ RowsOf(cart, req[p].user) = {}

\* ---- C8: a ReadCart whose fetched cart has no orphan row, no duplicate row
\* and no quantity other than 1 returns its rows without reaching the commit:
\* get_cart writes nothing, the persisted store is the same after it.
Clean(items) ==
    /\ \A i \in DOMAIN items : items[i].product # NoProduct /\ items[i].quantity = 1
    /\ \A i, j \in DOMAIN items : items[i].product_id = items[j].product_id => i = j

C8_Step ==
    \A p \in Procs :
        (req[p].op = "get_cart" /\ req[p].pc = "handler" /\ req'[p] # req[p]
           /\ Clean(SelectCart(req[p].user)))
        => /\ req'[p].pc = "done"
           /\ req'[p].status = 200
           /\ Len(req'[p].body) = Len(SelectCart(req[p].user))
           /\ store' = store

SubsIn(b, u) ==
    LET rows == {r \in BagToSet(b) : r.user_id = u}
    IN [r \in rows |-> b[r]]

SameIgnoringCase(a, b) ==
    Len(a) = Len(b) /\ \A i \in DOMAIN a : lower_char(a[i]) = lower_char(b[i])

IsDisableKeyword(arg) ==
    \E w \in {<<"o", "f", "f">>, <<"s", "t", "o", "p">>, <<"c", "a", "n", "c", "e", "l">>} : SameIgnoringCase(arg, w)

\* ---- C9: whatever /size commands and size: callbacks are handled, a user
\* never has more than one SizeSubscription row; the commit of a /size VALUE
\* that does not disable leaves the user exactly one row, holding VALUE in
\* upper case; and a user's row disappears only in the commit of a disabling
\* command of that user: replacing a size never shows a state without a row.
C9_Step ==
    /\ \A u \in Users : BagCardinality(SubsIn(subs', u)) <= 1
    /\ \A p \in Procs :
         (Step(p, "telegram_webhook", "subscribe", "send")
            /\ ~IsDisableKeyword(req[p].plan.arg))
         => \E row \in BagToSet(subs') :
               /\ SubsIn(subs', req[p].user) = SetToBag({row})
               /\ SameIgnoringCase(row.size, req[p].plan.arg)
               /\ \A i \in DOMAIN row.size : IndexOf(row.size[i], Lower) = 0
    /\ \A u \in Users :
         (SubsIn(subs, u) # EmptyBag /\ SubsIn(subs', u) = EmptyBag)
         => \E p \in Procs :
               /\ Step(p, "telegram_webhook", "subscribe", "send")
               /\ req[p].user = u
               /\ IsDisableKeyword(req[p].plan.arg)

C9_OneSubscriptionLatestValue == [][C9_Step]_vars

\* user 1 subscribed to M, then sent "/size xl": the one row left holds XL
C9_Witness ==
    \E p, q \in Procs :
        /\ p # q
        /\ req[q].pc = "done" /\ req[q].user = 1 /\ req[q].update.text = <<"/", "s", "i", "z", "e", " ", "M">>
        /\ req[q].body = ReadyReply(<<"M">>)
        /\ req[p].pc = "done" /\ req[p].user = 1 /\ req[p].update.text = <<"/", "s", "i", "z", "e", " ", "x", "l">>
        /\ req[p].body = ReadyReply(<<"X", "L">>)
        /\ SubsOf(1) = SetToBag({[user_id |-> 1, size |-> <<"X", "L">>]})

\* ---- C10: a /size message whose argument is off, stop or cancel in any
\* letter case is taken as a command with an argument, its commit leaves the
\* user without SizeSubscription whatever rows the user had, and the reply
\* (the only message sent) confirms that notifications are disabled.
C10_DisableTexts ==
    {<<"/", "s", "i", "z", "e", " ", "o", "f", "f">>, <<"/", "s", "i", "z", "e", " ", "O", "F", "F">>, <<"/", "s", "i", "z", "e", " ", "S", "t", "o", "p">>, <<"/", "s", "i", "z", "e", " ", "c", "a", "n", "c", "e", "l">>}

C10_Step ==
    \A p \in Procs :
        (req[p].op = "telegram_webhook" /\ req[p].update.kind = "message"
           /\ req[p].update.id # 0 /\ req[p].update.text \in C10_DisableTexts
           /\ req'[p].pc # req[p].pc)
        => /\ req[p].pc = "handler" => req'[p].pc \in {"subscribe", "adduser"}
           /\ req[p].pc = "subscribe" =>
                 /\ SubsIn(subs', req[p].update.id) = EmptyBag
                 /\ req'[p].body = DisabledReply
           /\ req[p].pc = "send" =>
                 /\ req'[p].status = 200
                 /\ \A i \in DOMAIN req'[p].sent :
                       req'[p].sent[i] = [chat_id |-> req[p].update.id,
                                          message |-> DisabledReply]

C10_SizeOffDisables == [][C10_Step]_vars

\* "/size M" then "/size off" for user 1: no subscription is left and the
\* confirmation was sent
C10_Witness ==
    \E p, q \in Procs :
        /\ p # q
        /\ req[q].pc = "done" /\ req[q].user = 1 /\ req[q].update.text = <<"/", "s", "i", "z", "e", " ", "M">>
        /\ req[q].body = ReadyReply(<<"M">>)
        /\ req[p].pc = "done" /\ req[p].user = 1 /\ req[p].update.text = <<"/", "s", "i", "z", "e", " ", "o", "f", "f">>
        /\ req[p].sent = <<[chat_id |-> 1, message |-> DisabledReply]>>
        /\ SubsOf(1) = EmptyBag

\* ------------------------------------------- claims on the notifications
\* every post of a send was accepted / refused
AllAccepted(sending) ==
    /\ sending.posts # <<>>
    /\ \A i \in DOMAIN sending.posts : sending.posts[i].ok
AllRefused(sending) ==
    /\ sending.posts # <<>>
    /\ \A i \in DOMAIN sending.posts : ~sending.posts[i].ok

\* ---- C11: once create_order has committed, what it returns and what is
\* persisted do not depend on the notification sink.  Whatever the two sends
\* do (every post accepted, every post refused, nothing configured), neither
\* send changes a table or the order to be returned, and the call ends with
\* status 201 and the order it committed.
C11_Step ==
    \A p \in Procs :
        /\ Step(p, "create_order", "commit", "notify_admin")
           => /\ req'[p].body = <<orders'[Len(orders')]>>
              /\ req'[p].sent = <<>>
        /\ Step(p, "create_order", "notify_admin", "notify_user")
           => /\ store' = store
              /\ req'[p].body = req[p].body
        /\ (req[p].op = "create_order" /\ req[p].pc = "notify_user" /\ req'[p] # req[p])
           => /\ store' = store
              /\ req'[p].pc = "done"
              /\ req'[p].status = 201
              /\ req'[p].body = req[p].body
              /\ req'[p].body[1].id \in DOMAIN orders'
              /\ orders'[req'[p].body[1].id].items = req'[p].body[1].items
              /\ orders'[req'[p].body[1].id].total_price = req'[p].body[1].total_price

C11_NotificationsNeverFailOrder == [][C11_Step]_vars

\* two orders were answered 201: the sink accepted both messages of one and
\* refused both messages of the other
C11_Witness ==
    \E p, q \in Procs :
        /\ p # q
        /\ req[p].op = "create_order" /\ req[p].pc = "done" /\ req[p].status = 201
        /\ req[q].op = "create_order" /\ req[q].pc = "done" /\ req[q].status = 201
        /\ Len(req[p].sent) = 2 /\ AllAccepted(req[p].sent[1]) /\ AllAccepted(req[p].sent[2])
        /\ Len(req[q].sent) = 2 /\ AllRefused(req[q].sent[1]) /\ AllRefused(req[q].sent[2])
        /\ Len(orders) = 2

\* ---- C12: create_order calls the sink only after its commit.  A call that
\* fails has sent nothing; nothing is sent up to and in the commit step; each
\* send happens while the order is persisted; and a call that succeeds has
\* made exactly two sends, the admin summary of its order first, the user's
\* message second.
C12_Step ==
    \A p \in Procs :
        req[p].op = "create_order" /\ req[p].pc # "done" /\ req'[p] # req[p]
        => /\ req'[p].sent # req[p].sent
              => /\ req[p].pc \in {"notify_admin", "notify_user"}
                 /\ Len(req'[p].sent) = Len(req[p].sent) + 1
                 /\ req[p].body[1].id \in DOMAIN orders
           /\ req[p].pc \in {"handler", "commit"} => req'[p].sent = <<>>
           /\ (req'[p].pc = "done" /\ req'[p].status # 201) => req'[p].sent = <<>>
           /\ (req'[p].pc = "done" /\ req'[p].status = 201)
              => /\ Len(req'[p].sent) = 2
                 /\ req'[p].sent[1].fn = "send_admin_message"
                 /\ req'[p].sent[2].fn = "send_user_message_to_admin"

C12_NotifyAfterCommit == [][C12_Step]_vars

\* one order was placed and both messages were posted; another call failed on
\* an empty cart and sent nothing
C12_Witness ==
    \E p, q \in Procs :
        /\ p # q
        /\ req[p].op = "create_order" /\ req[p].pc = "done" /\ req[p].status = 201
        /\ Len(req[p].sent) = 2
        /\ req[p].sent[1].posts # <<>> /\ req[p].sent[2].posts # <<>>
        /\ req[p].sent[1].posts[1].text.kind = "admin_notification"
        /\ req[p].sent[1].posts[1].text.order_id = req[p].body[1].id
        /\ req[p].sent[2].posts[1].text.kind = "user_message"
        /\ req[q].op = "create_order" /\ req[q].pc = "done" /\ req[q].status = 400
        /\ req[q].sent = <<>>

\* a finished call of one of the two admin notification functions
SinkCall(p) == req[p].pc = "done" /\ req[p].op \in SinkFunctions

\* ---- C13: a notification to the admin chats returns true exactly when a
\* post to at least one chat was accepted; with the token and the chats 7 and
\* 8 configured, a post is made to 7 and then to 8 whatever happened to the
\* post to 7, and the call returns a value (no exception reaches the caller).
C13_NotifyResult ==
    \A p \in Procs :
        SinkCall(p) =>
            LET sending == req[p].sent[1] IN
            /\ req[p].body \in {<<TRUE>>, <<FALSE>>}
            /\ req[p].body[1] = (\E i \in DOMAIN sending.posts : sending.posts[i].ok)
            /\ (sending.token # "" /\ sending.raw = <<"7", ",", " ", "8">>)
               => /\ Len(sending.posts) = 2
                  /\ sending.posts[1].chat_id = <<"7">>
                  /\ sending.posts[2].chat_id = <<"8">>

\* chat 7 refused the message, chat 8 was still tried and accepted it: true
C13_Witness ==
    \E p \in Procs :
        /\ SinkCall(p)
        /\ Len(req[p].sent[1].posts) = 2
        /\ ~req[p].sent[1].posts[1].ok
        /\ req[p].sent[1].posts[2].ok
        /\ req[p].body = <<TRUE>>

\* ---- C14: without a bot token, or without an admin chat (the variable
\* unset, or holding only blanks and commas), a notification returns false
\* and posts to no chat.
C14_Unconfigured ==
    \A p \in Procs :
        (SinkCall(p) /\ (req[p].sent[1].token = ""
                          \/ req[p].sent[1].raw \in {<<>>, <<" ", ",">>}))
        => /\ req[p].body = <<FALSE>>
           /\ req[p].sent[1].posts = <<>>

\* one call ran without the token while two chats were configured, another
\* with the token and no chat: both returned false without a post
C14_Witness ==
    \E p, q \in Procs :
        /\ p # q /\ SinkCall(p) /\ SinkCall(q)
        /\ req[p].sent[1].token = "" /\ req[p].sent[1].raw = <<"7", ",", " ", "8">>
        /\ req[q].sent[1].token # "" /\ req[q].sent[1].raw = <<" ", ",">>
        /\ req[p].body = <<FALSE>> /\ req[q].body = <<FALSE>>
        /\ req[p].sent[1].posts = <<>> /\ req[q].sent[1].posts = <<>>

\* ------------------------------------------------- claims on the races
\* the ids of the rows in a fetched cart
IdsOf(items) == {items[i].id : i \in DOMAIN items}

\* ---- C15: a cart row of the user that was committed after create_order
\* read the cart and is there when create_order writes is deleted by
\* create_order's final delete, and the order holds the lines of the rows that
\* were read only: the late row is neither ordered nor left in the cart.
C15_Step ==
    \A p \in Procs :
        Step(p, "create_order", "commit", "notify_admin")
        => LET late == RowsOf(cart, req[p].user) \ IdsOf(req[p].snap)
               read == valid_of(req[p].snap)
               order == orders'[Len(orders')]
           IN /\ \A r \in late : cart'[r] = NoRow
              /\ Len(order.items) = Len(read)
              /\ \A j \in DOMAIN order.items :
                    order.items[j].product_id = read[j].product_id

C15_LateCartRowLost == [][C15_Step]_vars

\* add_to_cart answered 200 with a new row of product 2 for the user whose
\* order, read before and written after, has the one line of product 1: the
\* row is in no cart and in no order
C15_Witness ==
    \E p, q \in Procs :
        /\ p # q
        /\ req[p].op = "create_order" /\ req[p].pc \in {"notify_admin", "notify_user", "done"}
        /\ req[p].body # <<>> /\ Len(req[p].body[1].items) = 1
        /\ req[q].op = "add_to_cart" /\ req[q].pc = "done" /\ req[q].status = 200
        /\ req[q].user = req[p].user /\ req[q].snap = <<>>
        /\ req[q].body[1].id \notin IdsOf(req[p].snap)
        /\ req[q].body[1].product_id # req[p].body[1].items[1].product_id
        /\ cart[req[q].body[1].id] = NoRow
        /\ RowsOf(cart, req[p].user) = {}
        /\ Len(orders) = 1

\* ---- C16: whatever add_to_cart calls have run, interleaved ones included,
\* the persisted cart holds at most one row for a user and a product.
C16_OneRowPerUserProduct ==
    \A u \in Users, pid \in ProductIds :
        Cardinality({r \in RowsOf(cart, u) : cart[r].product_id = pid}) <= 1

\* ------------------------------------------------ claims on the quantity
\* ---- C17: the cart quantity is pinned to 1.  An add_to_cart that answers 200
\* returns its row with quantity 1 whatever quantity was requested, the row it
\* inserts is stored with quantity 1, and so is the row it found when that row
\* is still as it was fetched.  Every row get_cart returns has quantity 1.  A
\* get_cart that fetched a kept row (first row of an existing product) with
\* another quantity does not answer before a commit, and when the cart is
\* still as fetched that commit stores quantity 1 in the row.
C17_Step ==
    \A p \in Procs :
        /\ (Step(p, "add_to_cart", "commit", "done") /\ req'[p].status = 200)
           => LET row == req'[p].body[1] IN
              /\ row.quantity = 1
              /\ req[p].snap = <<>> => cart'[row.id].quantity = 1
              /\ (req[p].snap # <<>> /\ SelectCartProduct(req[p].user, req[p].arg) = req[p].snap)
                 => cart'[row.id].quantity = 1
        /\ (req[p].op = "get_cart" /\ req'[p] # req[p] /\ req'[p].pc = "done"
              /\ req'[p].status = 200)
           => \A i \in DOMAIN req'[p].body : req'[p].body[i].quantity = 1
        /\ (req[p].op = "get_cart" /\ req[p].pc = "handler" /\ req'[p] # req[p]
              /\ \E i \in DOMAIN SelectCart(req[p].user) :
                    LET item == SelectCart(req[p].user)[i] IN
                    /\ item.product # NoProduct /\ item.quantity # 1
                    /\ item.id = FirstRow(SelectCart(req[p].user), item.product_id))
           => req'[p].pc = "commit"
        /\ (Completes(p) /\ req[p].pc = "commit")
           => \A i \in DOMAIN req[p].snap :
                 LET item == req[p].snap[i] IN
                 (item.product # NoProduct /\ item.id = FirstRow(req[p].snap, item.product_id))
                 => cart'[item.id] # NoRow /\ cart'[item.id].quantity = 1

C17_QuantityPinned == [][C17_Step]_vars

\* an add_to_cart that asked for quantity 2 stored 1, and a get_cart that
\* found quantity 2 in a row returned it with 1 and stored 1
C17_Witness ==
    \E p, q \in Procs :
        /\ p # q
        /\ req[p].op = "add_to_cart" /\ req[p].pc = "done" /\ req[p].status = 200
        /\ req[p].plan.quantity = 2 /\ req[p].body[1].quantity = 1
        /\ req[q].op = "get_cart" /\ req[q].pc = "done" /\ req[q].status = 200
        /\ Len(req[q].snap) = 1 /\ req[q].snap[1].quantity = 2
        /\ Len(req[q].body) = 1 /\ req[q].body[1].quantity = 1
        /\ cart[req[q].snap[1].id] # NoRow
        /\ cart[req[q].snap[1].id].quantity = 1

\* ------------------------------------------ more claims on the webhook
\* callback payloads and the text commands they stand for
C18_Twins ==
    {<<<<"s", "i", "z", "e", ":", "M">>, <<"/", "s", "i", "z", "e", " ", "M">>>>, <<<<"s", "i", "z", "e", ":", "O", "F", "F">>, <<"/", "s", "i", "z", "e", " ", "o", "f", "f">>>>,
     <<<<"s", "i", "z", "e", ":", "o", "f", "f">>, <<"/", "s", "i", "z", "e", " ", "o", "f", "f">>>>, <<<<"s", "i", "z", "e", ":">>, <<"/", "s", "i", "z", "e", " ">>>>}

\* p handles a size: callback and q the text command it stands for, from the
\* same user
Twin(p, q) ==
    /\ req[p].op = "telegram_webhook" /\ req[q].op = "telegram_webhook"
    /\ req[p].update.kind = "callback_query" /\ req[q].update.kind = "message"
    /\ req[p].update.id = req[q].update.id /\ req[p].update.id # 0
    /\ \E t \in C18_Twins : req[p].update.text = t[1] /\ req[q].update.text = strip(t[2])

\* ---- C18: a callback with payload size:VALUE is dispatched exactly as the
\* message "/size VALUE" of the same user would be in the same state (and
\* size:OFF, in any case, as "/size off"): the same next step, the same
\* argument, the same reply; the later steps read nothing else of the update.
\* A callback and its text command that both completed gave the same reply.
C18_Step ==
    /\ \A p \in Procs :
         (req[p].op = "telegram_webhook" /\ req[p].pc = "handler" /\ req'[p] # req[p]
            /\ req[p].update.kind = "callback_query" /\ req[p].update.id # 0)
         => \A t \in C18_Twins :
               req[p].update.text = t[1]
               => LET message == [kind |-> "message", id |-> req[p].update.id, text |-> t[2]]
                      as_text == webhook_dispatch(p, message)[p]
                  IN /\ req'[p].pc = as_text.pc
                     /\ req'[p].user = as_text.user
                     /\ req'[p].plan = as_text.plan
                     /\ req'[p].body = as_text.body
                     /\ req'[p].status = as_text.status
                     /\ store' = store
    /\ \A p, q \in Procs :
         (Twin(p, q) /\ req[p].pc = "done" /\ req[q].pc = "done"
            /\ req[p].status = 200 /\ req[q].status = 200)
         => req[p].body = req[q].body /\ req[p].plan = req[q].plan

C18_CallbackAsCommand == [][C18_Step]_vars

\* the button M and the message "/size M" of user 1 were both answered with
\* the same reply, and user 1 has the one subscription M
C18_Witness ==
    \E p, q \in Procs :
        /\ Twin(p, q)
        /\ req[p].update.text = <<"s", "i", "z", "e", ":", "M">>
        /\ req[p].pc = "done" /\ req[q].pc = "done"
        /\ req[p].status = 200 /\ req[q].status = 200
        /\ req[p].body = ReadyReply(<<"M">>) /\ req[q].body = req[p].body
        /\ SubsOf(1) = SetToBag({[user_id |-> 1, size |-> <<"M">>]})

\* the message p handles is the command /size followed by an argument
IsSizeWithArgument(text) ==
    LET t == strip(text)
    IN Len(t) > 5 /\ SubSeq(t, 1, 5) = <<"/", "s", "i", "z", "e">> /\ IsSpace(t[6])

\* the keyboard of the six buttons XS, S, M, L, XL and "disable"
IsSizeKeyboard(markup) ==
    /\ Len(markup) = 6
    /\ \A i \in 1..5 : /\ markup[i].text = <<"XS", "S", "M", "L", "XL">>[i]
                       /\ markup[i].callback_data = "size:" \o markup[i].text
    /\ markup[6].callback_data = "size:OFF"

\* ---- C19: a message that is not /size with an argument changes neither the
\* users nor the size subscriptions at any step of its handling, and is
\* answered by one send: /start with the fixed text and the keyboard of XS, S,
\* M, L, XL and the disable button, /size alone with the usage text, every
\* other text with the hint.
C19_Step ==
    \A p \in Procs :
        (req[p].op = "telegram_webhook" /\ req[p].pc \notin {"idle", "done"}
           /\ req'[p] # req[p]
           /\ req[p].update.kind = "message" /\ req[p].update.id # 0
           /\ ~IsSizeWithArgument(req[p].update.text))
        => LET t == strip(req[p].update.text) IN
           /\ users' = users /\ subs' = subs
           /\ req[p].pc \in {"handler", "send"}
           /\ req[p].pc = "handler"
              => /\ req'[p].pc = "send"
                 /\ t = <<"/", "s", "t", "a", "r", "t">>
                    => /\ req'[p].body.text = START_TEXT
                       /\ IsSizeKeyboard(req'[p].body.reply_markup)
                 /\ t = <<"/", "s", "i", "z", "e">> => req'[p].body = UsageReply
                 /\ t \notin {<<"/", "s", "t", "a", "r", "t">>, <<"/", "s", "i", "z", "e">>} => req'[p].body = HintReply
           /\ req[p].pc = "send"
              => /\ req'[p].pc = "done" /\ req'[p].status = 200
                 /\ req'[p].sent \in {<<>>, <<[chat_id |-> req[p].update.id,
                                              message |-> req[p].body]>>}

C19_OtherEventsMutateNothing == [][C19_Step]_vars

\* an update without actionable content, by the claim: no message and no
\* callback, an edited message, a callback without the size: prefix, no id
NoActionableContent(update) ==
    \/ update.kind = "none"
    \/ update.kind = "edited_message"
    \/ update.kind = "callback_query" /\ ~startswith(strip(update.text), SizePrefix)
    \/ update.id = 0

\* the same without the edited messages
NoActionableContentButEdits(update) ==
    \/ update.kind = "none"
    \/ update.kind = "callback_query" /\ ~startswith(strip(update.text), SizePrefix)
    \/ update.kind # "edited_message" /\ update.id = 0

\* the request ends in its first step with an acknowledgement: status 200,
\* nothing sent, no table changed
Acknowledged(p) ==
    /\ req'[p].pc = "done" /\ req'[p].status = 200
    /\ req'[p].body \in {[ok |-> TRUE], [ok |-> FALSE]}
    /\ req'[p].sent = <<>>
    /\ store' = store

\* ---- C20 as claimed: an update with no message and no callback, an edited
\* message, a callback whose payload does not start with size:, or an update
\* without chat / user id is acknowledged, nothing is sent, nothing changes.
C20_OriginalStep ==
    \A p \in Procs :
        (req[p].op = "telegram_webhook" /\ req[p].pc = "handler" /\ req'[p] # req[p]
           /\ NoActionableContent(req[p].update))
        => Acknowledged(p)

C20_EditedMessageIgnored == [][C20_OriginalStep]_vars

\* ---- C20 as amended: an update with no message, no edited message and no
\* callback, a callback whose payload does not start with size:, or a message
\* or callback without chat / user id is acknowledged, nothing is sent,
\* nothing changes; an edited message is handled as the message it carries.
C20_Step ==
    \A p \in Procs :
        (req[p].op = "telegram_webhook" /\ req[p].pc = "handler" /\ req'[p] # req[p])
        => /\ NoActionableContentButEdits(req[p].update) => Acknowledged(p)
           /\ req[p].update.kind = "edited_message"
              => LET message == [req[p].update EXCEPT !.kind = "message"]
                     as_message == webhook_dispatch(p, message)[p]
                 IN /\ req'[p].pc = as_message.pc
                    /\ req'[p].plan = as_message.plan
                    /\ req'[p].body = as_message.body
                    /\ req'[p].status = as_message.status

C20_NoActionableContent == [][C20_Step]_vars

\* an update that is no message and a callback "noop" were acknowledged with
\* nothing sent, and no table holds a row
C20_Witness ==
    \E p, q \in Procs :
        /\ p # q
        /\ req[p].op = "telegram_webhook" /\ req[p].pc = "done"
        /\ req[p].update.kind = "none" /\ req[p].status = 200
        /\ req[p].body = [ok |-> TRUE] /\ req[p].sent = <<>>
        /\ req[q].op = "telegram_webhook" /\ req[q].pc = "done"
        /\ req[q].update.kind = "callback_query" /\ req[q].update.text = <<"n", "o", "o", "p">>
        /\ req[q].status = 200 /\ req[q].sent = <<>>
        /\ users = {} /\ subs = EmptyBag

\* ------------------------------------------------- claims on the favorites
\* the Favorite rows of user u and product pid in a table t
FavRowsOf(t, u, pid) ==
    {f \in FavIds : t[f] # NoRow /\ t[f].user_id = u /\ t[f].product_id = pid}

\* at most one Favorite row per (user, product) in a table t
OneFavoritePerPair(t) ==
    \A u \in Users, pid \in ProductIds : Cardinality(FavRowsOf(t, u, pid)) <= 1

\* no other request changed what p's select read
FavQuiet(p) == SelectFavorite(req[p].user, req[p].arg) = req[p].snap

\* ---- C21: an add_favorite for a (user, product) pair that has its Favorite
\* row answers 400 ("Already in favorites") and changes no table; and calls
\* that follow one another (no other request writes the pair between the
\* select and the commit of an add_favorite) keep at most one Favorite row per
\* (user, product): no step of add_favorite, remove_favorite or get_favorites
\* takes a table without duplicates to one with duplicates.
C21_Step ==
    /\ \A p \in Procs :
         (req[p].op = "add_favorite" /\ req[p].pc = "handler" /\ req'[p] # req[p]
            /\ Cardinality(FavRowsOf(favorites, req[p].user, req[p].arg)) = 1)
         => /\ req'[p].pc = "done"
            /\ req'[p].status = 400
            /\ store' = store
    /\ (/\ OneFavoritePerPair(favorites)
        /\ \A p \in Procs : Step(p, "add_favorite", "commit", "done") => FavQuiet(p))
       => OneFavoritePerPair(favorites')

C21_DuplicateFavoriteConflict == [][C21_Step]_vars

\* user 1 added product 1, removed it, added it again, and a further add was
\* refused with 400: one row is there
C21_Witness ==
    \E p, q \in Procs :
        /\ p # q
        /\ req[p].op = "add_favorite" /\ req[p].pc = "done" /\ req[p].status = 400
        /\ Len(req[p].snap) = 1
        /\ Cardinality(FavRowsOf(favorites, req[p].user, req[p].arg)) = 1
        /\ req[q].op = "remove_favorite" /\ req[q].pc = "done" /\ req[q].status = 200
        /\ req[q].user = req[p].user /\ req[q].arg = req[p].arg
        /\ Len(req[q].snap) = 1

\* ---- C22: direct-id operations on a missing target fail with 404 and change
\* no table: an add_to_cart or add_favorite whose product id has no Product
\* row, and a remove_from_cart whose item id has no CartItem row of the caller,
\* end at their select with status 404, and nothing is written.
C22_CartStep ==
    \A p \in Procs :
        /\ (req[p].op = "add_to_cart" /\ req[p].pc = "handler" /\ req'[p] # req[p]
              /\ products[req[p].arg] = NoProduct)
           => req'[p].pc = "done" /\ req'[p].status = 404 /\ store' = store
        /\ (req[p].op = "remove_from_cart" /\ req[p].pc = "handler" /\ req'[p] # req[p]
              /\ (cart[req[p].arg] = NoRow \/ cart[req[p].arg].user_id # req[p].user))
           => req'[p].pc = "done" /\ req'[p].status = 404 /\ store' = store

C22_FavoriteStep ==
    \A p \in Procs :
        (req[p].op = "add_favorite" /\ req[p].pc = "handler" /\ req'[p] # req[p]
           /\ products[req[p].arg] = NoProduct)
        => req'[p].pc = "done" /\ req'[p].status = 404 /\ store' = store

C22_Step == C22_CartStep /\ C22_FavoriteStep

C22_MissingTargetNotFound == [][C22_Step]_vars

\* the part of C22 on the cart handlers
C22_CartNotFound == [][C22_CartStep]_vars

\* a Favorite row of a product id that never had a Product row was committed
C22_FavoriteOfMissingProduct ==
    \E p \in Procs :
        /\ req[p].op = "add_favorite" /\ req[p].pc = "done" /\ req[p].status = 500
        /\ req[p].snap = <<>>
        /\ products[req[p].arg] = NoProduct
        /\ FavRowsOf(favorites, req[p].user, req[p].arg) # {}

\* ---- C23: get_cart never changes Product data.  No step of get_cart, the
\* commit of a reconciliation included, changes the products table: the image
\* URLs persisted are the same after the call as before, the rewritten URLs
\* are in the returned rows only.
C23_Step ==
    \A p \in Procs :
        (req[p].op = "get_cart" /\ req[p].pc \in {"handler", "commit"} /\ req'[p] # req[p])
        => products' = products

C23_ReadCartKeepsProducts == [][C23_Step]_vars

\* ---- C24: two concurrent create_order calls of one user never both succeed
\* with orders built from the same cart rows.  When a create_order commits its
\* Order, no other create_order of the same user has already committed an
\* Order from a cart row that this one read too (the row that the other one's
\* commit deleted).
Succeeded(q) ==
    /\ req[q].op = "create_order"
    /\ req[q].pc \in {"notify_admin", "notify_user", "done"}
    /\ req[q].pc = "done" => req[q].status = 201

\* the valid rows that both p and q fetched and that are gone from the cart
ConsumedTwice(p, q) ==
    {r \in RowIds :
        /\ \E i \in DOMAIN req[p].plan.valid_items : req[p].plan.valid_items[i].id = r
        /\ \E i \in DOMAIN req[q].plan.valid_items : req[q].plan.valid_items[i].id = r
        /\ cart[r] = NoRow}

C24_Step ==
    \A p, q \in Procs :
        (p # q /\ Step(p, "create_order", "commit", "notify_admin")
           /\ Succeeded(q) /\ req[q].user = req[p].user)
        => ConsumedTwice(p, q) = {}

C24_CartRowInOneOrder == [][C24_Step]_vars

\* ---- C25: every Order created by create_order has at most one line per
\* product, also when the cart it is built from holds several rows of one
\* product.
C25_OneLinePerProduct ==
    \A o \in DOMAIN orders :
        \A i, j \in DOMAIN orders[o].items :
            orders[o].items[i].product_id = orders[o].items[j].product_id => i = j

\* ---- C26: concurrent first interactions of one unseen user id all complete
\* without an error and leave its User row.  Every request that found no User
\* row at its select (get_current_user_id of a store call, _ensure_user of a
\* /size command) gets past its insert, whoever inserted the row first: the
\* step does not end the request with an error, and the row exists afterwards.
C26_Step ==
    \A p \in Procs :
        (req[p].pc = "adduser" /\ req'[p] # req[p])
        => /\ req'[p].pc # "done"
           /\ req'[p].status # 500
           /\ req[p].user \in users'

C26_FirstInteractionsComplete == [][C26_Step]_vars

\* ---- C27: user isolation.  No step of get_cart, add_to_cart,
\* remove_from_cart, create_order, get_favorites, add_favorite,
\* remove_favorite or the /size command running for user A creates, changes or
\* deletes a CartItem, Favorite or SizeSubscription row owned by another user.
OthersUntouched(t, t1, ids, u) ==
    \A r \in ids :
        /\ (t[r] # NoRow /\ t[r].user_id # u) => t1[r] = t[r]
        /\ (t1[r] # NoRow /\ t1[r].user_id # u) => t1[r] = t[r]

C27_Step ==
    \A p \in Procs :
        (req[p].op \in CartOps \cup FavOps \cup {"telegram_webhook"}
           /\ req[p].pc \in {"handler", "commit", "subscribe"} /\ req'[p] # req[p])
        => /\ OthersUntouched(cart, cart', RowIds, req[p].user)
           /\ OthersUntouched(favorites, favorites', FavIds, req[p].user)
           /\ \A u \in Users \ {req[p].user} : SubsIn(subs', u) = SubsIn(subs, u)

C27_UserIsolation == [][C27_Step]_vars

====
